---- MODULE Spec2Model ----
(***************************************************************************)
(* Levity: a key-value state object kept in memory (StateManager),         *)
(* written back to chrome.storage.sync by a debounced, retrying            *)
(* PersistQueue, and refreshed from remote change notifications by a       *)
(* SyncEngine.  createStore wires the three together.                      *)
(*                                                                         *)
(* A JavaScript object is a function whose DOMAIN is the set of its own    *)
(* keys; time is counted in milliseconds.  The clock of the stand-alone    *)
(* queue advances in steps of the shortest timer of the program; the clock *)
(* of a store advances in steps of StepMs, and every call, notification    *)
(* and timer callback happens at one of its instants.                      *)
(***************************************************************************)
EXTENDS Integers, Sequences, FiniteSets, TLC

\* ------------------------------------------------------------------ bounds
MaxSets == 2          \* set()/setAll() calls issued per store
MaxQueueCalls == 2    \* queue() calls issued on a stand-alone PersistQueue
MaxExternal == 1      \* writes made by a process outside the model
MaxFaults == 3        \* remote-store calls that reject
MaxListeners == 3     \* subscriptions a StateManager holds at a time
MaxNotifySets == 1    \* set()/setAll() calls issued by a store with subscribers
MaxNotifications == 2 \* change notifications sent to a store with subscribers
MaxResolverSets == 1  \* set() calls issued by a store that has a resolver
MaxWarnSets == 1      \* set()/setAll() calls issued by a store with onQuotaWarning
MaxSharedSets == 2    \* set() calls issued by two stores sharing a key
StepMs == 500         \* resolution of the clock of a store, in ms

Stores == {1, 2}
Fields == {"a", "b"}
Values == {1, 2}

\* --------------------------------------------------------- program constants
maxRetries == 3
retryDelay == 1000
DEFAULT_DEBOUNCE == 300
LOCAL_WRITE_DELAY == 1000
APPLY_REMOTE_DELAY == 100

DEFAULT_QUOTA_WARNING == 80
CHROME_SYNC_QUOTA == 102400

debounce == DEFAULT_DEBOUNCE
quotaThreshold == DEFAULT_QUOTA_WARNING
TickMs == APPLY_REMOTE_DELAY

\* ------------------------------------------------------------ JS objects
Null == [null |-> TRUE]
NoTimer == -1
EmptyObject == [k \in {} |-> 0]
Objects == UNION {[d -> Values] : d \in SUBSET Fields}
initial == [k \in Fields |-> 0]

\* the partial objects passed to queue() and setAll()
Partials == {o \in Objects : Cardinality(DOMAIN o) = 1} \cup {[k \in Fields |-> 1]}

\* the Error thrown by the remote store in attempt att of a flush()
ErrorOf(att, op) == [attempt |-> att, op |-> op]
NoError == ErrorOf(-1, "none")

\* { ...x, ...y }
Spread(x, y) ==
  [k \in (DOMAIN x) \cup (DOMAIN y) |-> IF k \in DOMAIN y THEN y[k] ELSE x[k]]

\* queue() that forgets what was pending
QueueMerge_Replace(pending, data) == Spread(EmptyObject, data)

\* a queue() that keeps the value queued first for a field
QueueMerge_KeepFirst(pending, data) ==
  IF pending = Null THEN Spread(EmptyObject, data) ELSE Spread(data, pending)

\* PersistQueue.queue: this.pendingData = { ...this.pendingData, ...data }
QueueMerge(pending, data) ==
  IF pending = Null THEN Spread(EmptyObject, data) ELSE Spread(pending, data)

\* a guard of flush() that does not look at isFlushing
FlushSkips_IgnoreFlag(pending, flushing) == pending = Null

\* PersistQueue.flush: if (!this.pendingData || this.isFlushing) return
FlushSkips(pending, flushing) == pending = Null \/ flushing

\* PersistQueue.flush: (result[storageKey] as T) || {}
CurrentState(st) == IF st.has THEN st.value ELSE EmptyObject

\* flush() that spreads the remote value over the data
NewState_Reversed(current, data) == Spread(data, current)

\* PersistQueue.flush: newState = { ...currentState, ...dataToWrite }
NewState(current, data) == Spread(current, data)

\* a storage.set that merges the object over what the key holds by then
Written_Merged(remote, new) == Spread(remote, new)

\* PersistQueue.flush: chrome.storage.sync.set({ [storageKey]: newState }):
\* the key is replaced by the object, whatever it holds by then
Written(remote, new) == new

\* PersistQueue.flush: if (attempt < maxRetries - 1) await delay(...)
HasNextAttempt(att) == att < maxRetries - 1

\* PersistQueue.flush: this.options.retryDelay * (attempt + 1)
RetryWait(att) == retryDelay * (att + 1)

\* recovery that spreads the failed snapshot over the newer data
RecoverPending_Reversed(data, pending) ==
  IF pending = Null THEN Spread(data, EmptyObject) ELSE Spread(pending, data)

\* PersistQueue.flush, all retries failed:
\* this.pendingData = { ...dataToWrite, ...this.pendingData }
RecoverPending(data, pending) ==
  IF pending = Null THEN Spread(data, EmptyObject) ELSE Spread(data, pending)

\* flush() that keeps the first error instead of the last
KeepError_First(previous, error) == IF previous = NoError THEN error ELSE previous

\* PersistQueue.flush: lastError = error
KeepError(previous, error) == error

VARIABLES
  storage,          \* the <prefix>:state key of chrome.storage.sync
  metaStamp,        \* number of writes of the <prefix>:meta key
  state,            \* StateManager.state
  pendingData,      \* PersistQueue.pendingData
  timeoutId,        \* PersistQueue.timeoutId: ms left of the debounce timer
  scheduled,        \* debounce timers of the queue pending in the event loop
  isFlushing,       \* PersistQueue.isFlushing
  flushPc,          \* position of the flush() past the single-flight guard
  attempt,          \* loop variable of flush()
  dataToWrite,      \* local of flush()
  newState,         \* local of flush(): the object handed to storage.set
  lastError,        \* local of flush()
  retryTimer,       \* ms left of the delay() of flush()
  onErrorCalls,     \* errors reported by flush() (onError / console.error)
  isApplyingRemote, \* SyncEngine.isApplyingRemote
  guardTimers,      \* ms left of each pending timer that clears the guard
  listener,         \* SyncEngine.listener is set
  onChanged,        \* listeners of the engine on chrome.storage.onChanged
  isReady,          \* createStore: isReady
  initPc,           \* position of init()
  loadBase,         \* while init() reads: queue() calls made before it
  onConflict,       \* options.onConflict
  sinceSet,         \* ms since the last set()/setAll(), up to the window
  handled,          \* the last change notification reached replaceState
  nExternal,        \* writes made so far by the outside process
  nFaults,          \* remote-store calls that have rejected so far
  queuedLog,        \* the data of every queue() call, in call order
  snapped,          \* queue() calls made before the last flush() took its snapshot
  flushed,          \* queue() calls written out before that flush() began
  failures,         \* failed attempts of the current flush()
  writeFailures,    \* rejected storage.set calls of the current flush()
  writeAttempts,    \* storage.set calls issued by the current flush()
  raced,            \* queue() was called while the current flush() ran
  onQuota,          \* options.onQuotaWarning is configured
  awaited,          \* the running flush() is awaited by a set()/setAll() call
  quotaReads,       \* set()/setAll() calls waiting for getBytesInUse()
  resolved,         \* set()/setAll() promises that have resolved
  rejected,         \* set()/setAll() promises that have rejected
  warned,           \* calls of options.onQuotaWarning: whether each threw
  keySubscribers,   \* StateManager.keySubscribers, in insertion order
  allSubscribers,   \* StateManager.allSubscribers, in insertion order
  changed,          \* changedKeys of the last StateManager operation
  fired,            \* the callbacks invoked by the last StateManager operation
  returned          \* the last StateManager operation returned normally

vars == << storage, metaStamp, state, pendingData, timeoutId, scheduled, isFlushing,
           flushPc, attempt, dataToWrite, newState, lastError, retryTimer,
           onErrorCalls, isApplyingRemote, guardTimers, listener, onChanged,
           isReady,
           initPc, loadBase, onConflict, sinceSet, handled, nExternal,
           nFaults, queuedLog, snapped, flushed, failures, writeFailures,
           writeAttempts, raced, onQuota, awaited, quotaReads, resolved,
           rejected, warned, keySubscribers, allSubscribers, changed,
           fired, returned >>

queueVars == << pendingData, timeoutId, scheduled, isFlushing, flushPc, attempt,
                dataToWrite, newState, lastError, retryTimer, onErrorCalls,
                queuedLog, snapped, flushed, failures, writeFailures,
                writeAttempts, raced >>
engineVars == << isApplyingRemote, guardTimers, listener, onChanged,
                 handled >>
facadeVars == << isReady, initPc, loadBase, onConflict, sinceSet >>
quotaVars == << onQuota, awaited, quotaReads, resolved, rejected, warned >>
managerVars == << keySubscribers, allSubscribers, changed, fired, returned >>

\* the remote key is absent, or holds an object written earlier
Absent == [has |-> FALSE, value |-> EmptyObject]
Stored(v) == [has |-> TRUE, value |-> v]
RemoteValues == {Absent, Stored([k \in Fields |-> 1])}

\* the resolvers a store can be configured with: none, or a function that
\* returns context.local, or one that returns context.remote
Resolvers == {"none", "local", "remote"}

\* the state after construction with options.onConflict = r and
\* options.onQuotaWarning configured iff q, when the remote store holds st
BuiltFrom(st, r, q, first) ==
  /\ storage = st
  /\ metaStamp = 0
  /\ state = [s \in Stores |-> first]
  /\ pendingData = [s \in Stores |-> Null]
  /\ timeoutId = [s \in Stores |-> NoTimer]
  /\ scheduled = [s \in Stores |-> 0]
  /\ isFlushing = [s \in Stores |-> FALSE]
  /\ flushPc = [s \in Stores |-> "idle"]
  /\ attempt = [s \in Stores |-> 0]
  /\ dataToWrite = [s \in Stores |-> Null]
  /\ newState = [s \in Stores |-> Null]
  /\ lastError = [s \in Stores |-> NoError]
  /\ retryTimer = [s \in Stores |-> NoTimer]
  /\ onErrorCalls = [s \in Stores |-> << >>]
  /\ isApplyingRemote = [s \in Stores |-> FALSE]
  /\ guardTimers = [s \in Stores |-> {}]
  /\ listener = [s \in Stores |-> FALSE]
  /\ onChanged = [s \in Stores |-> 0]
  /\ isReady = [s \in Stores |-> FALSE]
  /\ initPc = [s \in Stores |-> "new"]
  /\ loadBase = [s \in Stores |-> 0]
  /\ onConflict = [s \in Stores |-> r]
  /\ sinceSet = [s \in Stores |-> LOCAL_WRITE_DELAY]
  /\ handled = [s \in Stores |-> FALSE]
  /\ nExternal = 0
  /\ nFaults = 0
  /\ queuedLog = [s \in Stores |-> << >>]
  /\ snapped = [s \in Stores |-> 0]
  /\ flushed = [s \in Stores |-> 0]
  /\ failures = [s \in Stores |-> 0]
  /\ writeFailures = [s \in Stores |-> 0]
  /\ writeAttempts = [s \in Stores |-> 0]
  /\ raced = [s \in Stores |-> FALSE]
  /\ onQuota = [s \in Stores |-> q]
  /\ awaited = [s \in Stores |-> FALSE]
  /\ quotaReads = [s \in Stores |-> 0]
  /\ resolved = [s \in Stores |-> 0]
  /\ rejected = [s \in Stores |-> 0]
  /\ warned = [s \in Stores |-> << >>]
  /\ keySubscribers = [f \in Fields |-> << >>]
  /\ allSubscribers = << >>
  /\ changed = << >>
  /\ fired = << >>
  /\ returned = TRUE

\* the state after construction with options.initial = initial
Built(st, r, q) == BuiltFrom(st, r, q, initial)

\* the state after construction with options.onConflict = r
Configured(st, r) == Built(st, r, FALSE)

\* the state after construction without a resolver
Constructed(st) == Configured(st, "none")

Init == Constructed(Absent)

\* ------------------------------------------------------------ StateManager
\* update(key, value, source): no-op when Object.is(oldValue, value)
Update(cur, key, value) ==
  IF key \in DOMAIN cur /\ cur[key] = value THEN cur
  ELSE [k \in (DOMAIN cur) \cup {key} |-> IF k = key THEN value ELSE cur[k]]

\* updateMultiple(partial, source): assigns every field that differs
UpdateMultiple(cur, partial) ==
  [k \in (DOMAIN cur) \cup (DOMAIN partial) |->
     IF k \in DOMAIN partial THEN partial[k] ELSE cur[k]]

\* replaceState(newState, source): this.state = { ...newState }
ReplaceState(cur, new) == Spread(EmptyObject, new)

\* ------------------------------------------------------------- SyncEngine
\* a resolver that returns context.remote whatever it is configured as
Resolver_Remote(r, localValue, remoteValue) == remoteValue

\* the user's resolver: onConflict(context)
Resolver(r, localValue, remoteValue) ==
  IF r = "local" THEN localValue ELSE remoteValue

\* resolveConflicts that returns the remote snapshot alone
ResolveConflicts_RemoteOnly(local, remote, r) == remote

\* resolveConflicts that lets the local snapshot win
ResolveConflicts_LocalWins(local, remote, r) == Spread(remote, local)

\* Object.keys lists the fields in the order of the initial object
KeyOrder == << "a", "b" >>
KeysOf(o) == SelectSeq(KeyOrder, LAMBDA k : k \in DOMAIN o)

\* allKeys = new Set([...Object.keys(local), ...Object.keys(remote)])
AllKeys(local, remote) ==
  KeysOf(local) \o SelectSeq(KeysOf(remote), LAMBDA k : k \notin DOMAIN local)

\* a loop that hands every field both snapshots have to the resolver
Conflicts_Shared(local, remote, k) ==
  k \in DOMAIN local /\ k \in DOMAIN remote

\* the last branch of the loop: neither value is undefined and the two are
\* not the same
Conflicts(local, remote, k) ==
  k \in DOMAIN local /\ k \in DOMAIN remote /\ local[k] # remote[k]

\* the invocations of options.onConflict made by resolveConflicts, in order:
\* the context handed over and the value returned
ResolverCalls(local, remote, r) ==
  LET keys == SelectSeq(AllKeys(local, remote),
                        LAMBDA k : Conflicts(local, remote, k))
  IN [i \in 1..Len(keys) |->
        [key |-> keys[i], local |-> local[keys[i]], remote |-> remote[keys[i]],
         result |-> Resolver(r, local[keys[i]], remote[keys[i]])]]

\* resolved[key] = this.options.onConflict(context)
ResultFor(calls, k) ==
  calls[CHOOSE i \in 1..Len(calls) : calls[i].key = k].result

\* resolveConflicts(local, remote)
ResolveConflicts(local, remote, r) ==
  IF r = "none" THEN Spread(local, remote)
  ELSE [k \in (DOMAIN local) \cup (DOMAIN remote) |->
          IF k \notin DOMAIN local THEN remote[k]
          ELSE IF k \notin DOMAIN remote THEN local[k]
          ELSE IF local[k] = remote[k] THEN local[k]
          ELSE ResultFor(ResolverCalls(local, remote, r), k)]

\* the listener of start(): runs handleRemoteChange unless the guard is set
Accepts(registered, applying) == registered /\ ~applying

\* a markLocalWrite() that leaves the guard as it is
Marked_Late(applying) == applying

\* markLocalWrite(): this.isApplyingRemote = true
Marked(applying) == TRUE

\* markLocalWrite(): a timer is started that clears the guard
MarkTimers(timers) == timers \cup {LOCAL_WRITE_DELAY}

\* a handler that queues the resolved state for persistence, as set() does
Requeued_Resolved(pending, resolvedState) ==
  QueueMerge(pending, resolvedState)

\* handleRemoteChange: the resolved state goes to replaceState alone; the
\* PersistQueue is not called
Requeued(pending, resolvedState) == pending

\* a call of the onChanged listeners: the area, whether the changed-key map
\* has the state key, whether the change of the state key has a newValue,
\* and that newValue
Notification(area, hasKey, hasNew, v) ==
  [area |-> area, hasKey |-> hasKey, hasNew |-> hasNew, value |-> v]

\* the notification of a write of v to the state key of the sync area
StateChange(v) == Notification("sync", TRUE, TRUE, v)

\* a listener that does not look at the area
Relevant_AnyArea(n) == n.hasKey

\* the listener of start(): if (areaName !== 'sync') return;
\* stateChange = changes[storageKey]; if (stateChange && ...)
Relevant(n) == n.area = "sync" /\ n.hasKey

\* handleRemoteChange: if (!change.newValue) return
Carries(n) == n.hasNew

\* the listener of store t runs handleRemoteChange down to replaceState
Reacts(t, n) ==
  Accepts(onChanged[t] > 0, isApplyingRemote[t]) /\ Relevant(n) /\ Carries(n)

\* the onChanged listeners are called with n; a listener that reacts
\* resolves n.value against its state and replaces the state
NotifyOf(n) ==
  /\ pendingData' = [t \in Stores |->
       IF Reacts(t, n)
       THEN Requeued(pendingData[t],
                     ResolveConflicts(state[t], n.value, onConflict[t]))
       ELSE pendingData[t]]
  /\ state' = [t \in Stores |->
       IF Reacts(t, n)
       THEN ReplaceState(state[t],
                         ResolveConflicts(state[t], n.value, onConflict[t]))
       ELSE state[t]]
  /\ isApplyingRemote' = [t \in Stores |-> Reacts(t, n) \/ isApplyingRemote[t]]
  /\ guardTimers' = [t \in Stores |->
       IF Reacts(t, n)
       THEN guardTimers[t] \cup {APPLY_REMOTE_DELAY} ELSE guardTimers[t]]
  /\ handled' = [t \in Stores |-> Reacts(t, n)]

\* chrome.storage.sync.set notifies every listener; a listener that accepts
\* runs handleRemoteChange(change) with change.newValue = v
Notify(v) == NotifyOf(StateChange(v))

\* the timer of markLocalWrite() or handleRemoteChange() fires
GuardTimerFire(s) ==
  /\ 0 \in guardTimers[s]
  /\ isApplyingRemote' = [isApplyingRemote EXCEPT ![s] = FALSE]
  /\ guardTimers' = [guardTimers EXCEPT ![s] = @ \ {0}]
  /\ UNCHANGED << storage, metaStamp, state, queueVars, listener, onChanged,
                  handled,
                  facadeVars, nExternal, nFaults >>
  /\ UNCHANGED << quotaVars, managerVars >>

\* ------------------------------------------------------------ PersistQueue
InFlight(s) == flushPc[s] \in {"get", "set", "delay"}

\* clearTimeout(this.timeoutId) when the field is set: the timer it names is
\* no longer pending
Cleared(id, n) == IF id # NoTimer THEN n - 1 ELSE n

\* a queue() that starts a timer and leaves the earlier one running
Rescheduled_Kept(id, n) == n + 1

\* queue(): if (this.timeoutId) clearTimeout(this.timeoutId);
\* this.timeoutId = setTimeout(...)
Rescheduled(id, n) == Cleared(id, n) + 1

\* flush() up to its first await, entered with pendingData = pend
FlushFrom(s, pend, qlog) ==
  /\ timeoutId' = [timeoutId EXCEPT ![s] = NoTimer]
  /\ scheduled' = [scheduled EXCEPT ![s] = Cleared(timeoutId[s], @)]
  /\ queuedLog' = [queuedLog EXCEPT ![s] = qlog]
  /\ IF FlushSkips(pend, isFlushing[s])
     THEN /\ pendingData' = [pendingData EXCEPT ![s] = pend]
          /\ raced' = [raced EXCEPT ![s] = @ \/ (InFlight(s) /\ qlog # queuedLog[s])]
          /\ UNCHANGED << isFlushing, flushPc, attempt, dataToWrite,
                          lastError, snapped, flushed, failures,
                          writeFailures, writeAttempts >>
     ELSE /\ isFlushing' = [isFlushing EXCEPT ![s] = TRUE]
          /\ dataToWrite' = [dataToWrite EXCEPT ![s] = pend]
          /\ pendingData' = [pendingData EXCEPT ![s] = Null]
          /\ lastError' = [lastError EXCEPT ![s] = NoError]
          /\ attempt' = [attempt EXCEPT ![s] = 0]
          /\ flushPc' = [flushPc EXCEPT ![s] = "get"]
          /\ snapped' = [snapped EXCEPT ![s] = Len(qlog)]
          /\ flushed' = [flushed EXCEPT
                           ![s] = IF flushPc[s] = "written" THEN snapped[s] ELSE @]
          /\ failures' = [failures EXCEPT ![s] = 0]
          /\ writeFailures' = [writeFailures EXCEPT ![s] = 0]
          /\ writeAttempts' = [writeAttempts EXCEPT ![s] = 0]
          /\ raced' = [raced EXCEPT ![s] = FALSE]
  /\ UNCHANGED << newState, retryTimer, onErrorCalls >>

\* checkQuota() that lets a failure reach its caller
CheckQuotaOutcome_Uncaught(readFails, callbackThrows) ==
  IF readFails \/ callbackThrows THEN "rejected" ELSE "resolved"

\* checkQuota(): try { ... } catch { /* ignore quota check errors */ }
CheckQuotaOutcome(readFails, callbackThrows) == "resolved"

\* the promise of a set()/setAll() call of s settles with outcome o
Settle(s, o) ==
  /\ resolved' = [resolved EXCEPT ![s] = IF o = "resolved" THEN @ + 1 ELSE @]
  /\ rejected' = [rejected EXCEPT ![s] = IF o = "rejected" THEN @ + 1 ELSE @]

\* a set()/setAll() call of s is past await persistQueue.flush() and runs
\* checkQuota(): it returns at once, or awaits getBytesInUse()
AfterFlush(s) ==
  IF onQuota[s]
  THEN /\ quotaReads' = [quotaReads EXCEPT ![s] = @ + 1]
       /\ UNCHANGED << resolved, rejected >>
  ELSE /\ Settle(s, CheckQuotaOutcome(FALSE, FALSE))
       /\ UNCHANGED quotaReads

\* flush() is invoked with pendingData = pend, by a set()/setAll() call that
\* awaits it (bySet) or by a timer or a direct call
Invoked(s, pend, bySet) ==
  /\ IF FlushSkips(pend, isFlushing[s])
     THEN /\ IF bySet THEN AfterFlush(s)
             ELSE UNCHANGED << quotaReads, resolved, rejected >>
          /\ UNCHANGED awaited
     ELSE /\ awaited' = [awaited EXCEPT ![s] = bySet]
          /\ UNCHANGED << quotaReads, resolved, rejected >>
  /\ UNCHANGED << onQuota, warned >>

\* the flush() of s returns to the call that awaits it, if there is one
Returned(s) ==
  /\ IF awaited[s] THEN AfterFlush(s)
     ELSE UNCHANGED << quotaReads, resolved, rejected >>
  /\ awaited' = [awaited EXCEPT ![s] = FALSE]
  /\ UNCHANGED << onQuota, warned >>

\* queue(data)
Queue(s, data) ==
  /\ Len(queuedLog[s]) < MaxQueueCalls
  /\ pendingData' = [pendingData EXCEPT ![s] = QueueMerge(@, data)]
  /\ timeoutId' = [timeoutId EXCEPT ![s] = debounce]
  /\ scheduled' = [scheduled EXCEPT ![s] = Rescheduled(timeoutId[s], @)]
  /\ queuedLog' = [queuedLog EXCEPT ![s] = Append(@, data)]
  /\ raced' = [raced EXCEPT ![s] = @ \/ InFlight(s)]
  /\ UNCHANGED << storage, metaStamp, state, isFlushing, flushPc, attempt,
                  dataToWrite, newState, lastError, retryTimer, onErrorCalls,
                  snapped, flushed, failures, writeFailures, writeAttempts,
                  engineVars, facadeVars, nExternal, nFaults >>
  /\ UNCHANGED << quotaVars, managerVars >>

\* flush() called directly
FlushCall(s) ==
  /\ FlushFrom(s, pendingData[s], queuedLog[s])
  /\ Invoked(s, pendingData[s], FALSE)
  /\ UNCHANGED << storage, metaStamp, state, engineVars, facadeVars,
                  nExternal, nFaults >>
  /\ UNCHANGED managerVars

\* the debounce timer fires: () => { this.flush() }
DebounceFire(s) ==
  /\ timeoutId[s] = 0
  /\ FlushFrom(s, pendingData[s], queuedLog[s])
  /\ Invoked(s, pendingData[s], FALSE)
  /\ UNCHANGED << storage, metaStamp, state, engineVars, facadeVars,
                  nExternal, nFaults >>
  /\ UNCHANGED managerVars

\* chrome.storage.sync.get resolves; newState is built and storage.set called
FlushRead(s) ==
  /\ flushPc[s] = "get"
  /\ newState' = [newState EXCEPT
                    ![s] = NewState(CurrentState(storage), dataToWrite[s])]
  /\ writeAttempts' = [writeAttempts EXCEPT ![s] = @ + 1]
  /\ flushPc' = [flushPc EXCEPT ![s] = "set"]
  /\ UNCHANGED << storage, metaStamp, state, pendingData, timeoutId, scheduled,
                  isFlushing, attempt, dataToWrite, lastError, retryTimer,
                  onErrorCalls, queuedLog, snapped, flushed, failures,
                  writeFailures, raced, engineVars, facadeVars, nExternal, nFaults >>
  /\ UNCHANGED << quotaVars, managerVars >>

\* catch (error) of flush(), and the code after the loop on the last
\* attempt; throws: options.onError throws.  The statement
\* this.isFlushing = false after the call of onError is then not reached,
\* and flush() rejects
CatchWith(s, op, throws) ==
  /\ nFaults < MaxFaults
  /\ nFaults' = nFaults + 1
  /\ failures' = [failures EXCEPT ![s] = @ + 1]
  /\ writeFailures' = [writeFailures EXCEPT
                         ![s] = IF op = "set" THEN @ + 1 ELSE @]
  /\ IF HasNextAttempt(attempt[s])
     THEN /\ lastError' = [lastError EXCEPT
                             ![s] = KeepError(@, ErrorOf(attempt[s], op))]
          /\ flushPc' = [flushPc EXCEPT ![s] = "delay"]
          /\ retryTimer' = [retryTimer EXCEPT ![s] = RetryWait(attempt[s])]
          /\ UNCHANGED << pendingData, onErrorCalls, isFlushing, attempt,
                          dataToWrite, newState, quotaVars >>
     ELSE /\ pendingData' = [pendingData EXCEPT
                               ![s] = RecoverPending(dataToWrite[s], @)]
          /\ onErrorCalls' = [onErrorCalls EXCEPT
               ![s] = Append(@, KeepError(lastError[s], ErrorOf(attempt[s], op)))]
          /\ isFlushing' = [isFlushing EXCEPT ![s] = throws]
          /\ flushPc' = [flushPc EXCEPT
                           ![s] = IF throws THEN "thrown" ELSE "failed"]
          /\ attempt' = [attempt EXCEPT ![s] = 0]
          /\ dataToWrite' = [dataToWrite EXCEPT ![s] = Null]
          /\ newState' = [newState EXCEPT ![s] = Null]
          /\ lastError' = [lastError EXCEPT ![s] = NoError]
          /\ Returned(s)
          /\ UNCHANGED retryTimer
  /\ UNCHANGED << storage, metaStamp, state, timeoutId, scheduled, queuedLog, snapped,
                  flushed, writeAttempts, raced, engineVars, isReady, initPc,
                  loadBase,
                  onConflict, sinceSet, nExternal >>
  /\ UNCHANGED managerVars

\* the same when onError is not configured (console.error) or returns
Catch(s, op) == CatchWith(s, op, FALSE)

\* chrome.storage.sync.get rejects
FlushReadFail(s) ==
  /\ flushPc[s] = "get"
  /\ Catch(s, "get")

\* chrome.storage.sync.set rejects
FlushWriteFail(s) ==
  /\ flushPc[s] = "set"
  /\ Catch(s, "set")

\* a remote call of the last attempt rejects and options.onError throws
FlushFailThrow(s) ==
  /\ InFlight(s)
  /\ flushPc[s] # "delay"
  /\ ~HasNextAttempt(attempt[s])
  /\ CatchWith(s, flushPc[s], TRUE)

\* chrome.storage.sync.set writes both keys, notifies, and flush() returns
FlushWrite(s) ==
  /\ flushPc[s] = "set"
  /\ storage' = Stored(Written(CurrentState(storage), newState[s]))
  /\ metaStamp' = metaStamp + 1
  /\ Notify(Written(CurrentState(storage), newState[s]))
  /\ Returned(s)
  /\ isFlushing' = [isFlushing EXCEPT ![s] = FALSE]
  /\ flushPc' = [flushPc EXCEPT ![s] = "written"]
  /\ attempt' = [attempt EXCEPT ![s] = 0]
  /\ dataToWrite' = [dataToWrite EXCEPT ![s] = Null]
  /\ newState' = [newState EXCEPT ![s] = Null]
  /\ lastError' = [lastError EXCEPT ![s] = NoError]
  /\ UNCHANGED << timeoutId, scheduled, retryTimer, onErrorCalls,
                  queuedLog, snapped, flushed, failures, writeFailures,
                  writeAttempts, raced, listener, onChanged, isReady,
                  initPc,
                  loadBase,
                  onConflict, sinceSet, nExternal, nFaults >>
  /\ UNCHANGED managerVars

\* the delay() of flush() is over: attempt++ and the next get is issued
RetryFire(s) ==
  /\ flushPc[s] = "delay"
  /\ retryTimer[s] = 0
  /\ attempt' = [attempt EXCEPT ![s] = @ + 1]
  /\ flushPc' = [flushPc EXCEPT ![s] = "get"]
  /\ retryTimer' = [retryTimer EXCEPT ![s] = NoTimer]
  /\ UNCHANGED << storage, metaStamp, state, pendingData, timeoutId, scheduled,
                  isFlushing, dataToWrite, newState, lastError, onErrorCalls,
                  queuedLog, snapped, flushed, failures, writeFailures,
                  writeAttempts, raced, engineVars, facadeVars, nExternal, nFaults >>
  /\ UNCHANGED << quotaVars, managerVars >>

\* ------------------------------------------------------------------ time
\* what is left of a timer after ms milliseconds
Elapse(t, ms) ==
  IF t = NoTimer THEN NoTimer ELSE IF t > ms THEN t - ms ELSE 0

TimerDue ==
  \E s \in Stores :
     timeoutId[s] = 0 \/ retryTimer[s] = 0 \/ 0 \in guardTimers[s]

TimerPending ==
  \E s \in Stores :
     \/ timeoutId[s] # NoTimer
     \/ retryTimer[s] # NoTimer
     \/ guardTimers[s] # {}
     \/ sinceSet[s] < LOCAL_WRITE_DELAY

\* ms milliseconds pass.  A timer that is due fires before more time passes;
\* a timer whose delay ends within the ms is due after them (setTimeout
\* callbacks run no earlier than their delay)
Advance(ms) ==
  /\ ~TimerDue
  /\ TimerPending
  /\ timeoutId' = [s \in Stores |-> Elapse(timeoutId[s], ms)]
  /\ retryTimer' = [s \in Stores |-> Elapse(retryTimer[s], ms)]
  /\ guardTimers' = [s \in Stores |-> {Elapse(t, ms) : t \in guardTimers[s]}]
  /\ sinceSet' = [s \in Stores |->
       IF sinceSet[s] + ms < LOCAL_WRITE_DELAY
       THEN sinceSet[s] + ms ELSE LOCAL_WRITE_DELAY]
  /\ UNCHANGED << storage, metaStamp, state, pendingData, scheduled,
                  isFlushing,
                  flushPc, attempt, dataToWrite, newState, lastError,
                  onErrorCalls, queuedLog, snapped, flushed, failures,
                  writeFailures, writeAttempts, raced, isApplyingRemote,
                  listener, onChanged, handled, isReady, initPc, loadBase,
                  onConflict,
                  nExternal, nFaults >>
  /\ UNCHANGED << quotaVars, managerVars >>

\* the clock of the stand-alone queue: the shortest timer of the program
Tick == Advance(TickMs)

\* the clock of a store
Step == Advance(StepMs)

\* --------------------------------------------- a stand-alone PersistQueue
Q == 1

InitQueue == \E st \in RemoteValues : Constructed(st)

NextQueue ==
  \/ \E data \in Partials : Queue(Q, data)
  \/ FlushCall(Q)
  \/ DebounceFire(Q)
  \/ FlushRead(Q)
  \/ FlushReadFail(Q)
  \/ FlushWrite(Q)
  \/ FlushWriteFail(Q)
  \/ RetryFire(Q)
  \/ Tick

SpecQueue == InitQueue /\ [][NextQueue]_vars

\* ---- a PersistQueue whose flush() is called by its debounce timer only ----

NextDebounce ==
  \/ \E data \in Partials : Queue(Q, data)
  \/ DebounceFire(Q)
  \/ FlushRead(Q)
  \/ FlushReadFail(Q)
  \/ FlushWrite(Q)
  \/ FlushWriteFail(Q)
  \/ RetryFire(Q)
  \/ Tick

SpecDebounce == InitQueue /\ [][NextDebounce]_vars

\* ------------- a stand-alone PersistQueue whose onError callback can throw
NextOnError ==
  \/ \E data \in Partials : Queue(Q, data)
  \/ FlushCall(Q)
  \/ DebounceFire(Q)
  \/ FlushRead(Q)
  \/ FlushReadFail(Q)
  \/ FlushWrite(Q)
  \/ FlushWriteFail(Q)
  \/ FlushFailThrow(Q)
  \/ RetryFire(Q)
  \/ Tick

SpecOnError == InitQueue /\ [][NextOnError]_vars

\* ------------------------------------------------------------ createStore
\* set() / setAll() up to the await of persistQueue.flush(); mem is the
\* in-memory state after update / updateMultiple.  When flush() returns at
\* its guard the promise of the call resolves in the same task, as
\* checkQuota() returns at once (no onQuotaWarning is configured)
StoreWriteCore(s, partial, mem) ==
  /\ Len(queuedLog[s]) < MaxSets
  /\ state' = [state EXCEPT ![s] = mem]
  /\ isApplyingRemote' = [isApplyingRemote EXCEPT ![s] = Marked(@)]
  /\ guardTimers' = [guardTimers EXCEPT ![s] = MarkTimers(@)]
  /\ sinceSet' = [sinceSet EXCEPT ![s] = 0]
  /\ FlushFrom(s, QueueMerge(pendingData[s], partial),
               Append(queuedLog[s], partial))
  /\ Invoked(s, QueueMerge(pendingData[s], partial), TRUE)
  /\ UNCHANGED << storage, metaStamp, listener, onChanged, handled, isReady,
                  initPc,
                  loadBase,
                  onConflict, nExternal, nFaults >>

\* the same on a store that has no subscriber: update / updateMultiple
\* call nobody
StoreWrite(s, partial, mem) ==
  /\ StoreWriteCore(s, partial, mem)
  /\ UNCHANGED managerVars

\* store.set(key, value)
Set(s, key, value) ==
  StoreWrite(s, [k \in {key} |-> value], Update(state[s], key, value))

\* store.setAll(partial)
SetAll(s, partial) ==
  StoreWrite(s, partial, UpdateMultiple(state[s], partial))

\* init() that takes the stored state alone
Merged_StoredOnly(stored) == Spread(EmptyObject, stored)

\* init(): merged = { ...options.initial, ...storedState }
Merged(stored) == Spread(initial, stored)

\* init() up to the await of chrome.storage.sync.get
InitCall(s) ==
  /\ initPc[s] = "new"
  /\ initPc' = [initPc EXCEPT ![s] = "loading"]
  /\ loadBase' = [loadBase EXCEPT ![s] = Len(queuedLog[s])]
  /\ UNCHANGED << storage, metaStamp, state, queueVars, engineVars, isReady,
                  onConflict, sinceSet, nExternal, nFaults >>
  /\ UNCHANGED << quotaVars, managerVars >>

\* a start() that registers a listener whenever it is called
Registered_Unguarded(set, n) == n + 1

\* start(): if (this.listener) return; ... onChanged.addListener(this.listener)
Registered(set, n) == IF set THEN n ELSE n + 1

\* stop(): if (this.listener) { onChanged.removeListener(this.listener) ... }
Removed(set, n) == IF set THEN n - 1 ELSE n

\* the effect of start() on the engine of store s
Started(s) ==
  /\ onChanged' = [onChanged EXCEPT ![s] = Registered(listener[s], @)]
  /\ listener' = [listener EXCEPT ![s] = TRUE]

\* the effect of stop() on the engine of store s
Stopped(s) ==
  /\ onChanged' = [onChanged EXCEPT ![s] = Removed(listener[s], @)]
  /\ listener' = [listener EXCEPT ![s] = FALSE]

\* init(): the read resolves, the stored state is merged over the initial
\* one, the engine is started and the store is ready; with onQuotaWarning
\* init() goes on to await the read of checkQuota()
InitLoaded(s) ==
  /\ initPc[s] = "loading"
  /\ state' = [state EXCEPT
       ![s] = IF storage.has
              THEN ReplaceState(@, Merged(storage.value)) ELSE @]
  /\ Started(s)
  /\ isReady' = [isReady EXCEPT ![s] = TRUE]
  /\ initPc' = [initPc EXCEPT ![s] = IF onQuota[s] THEN "quota" ELSE "done"]
  /\ loadBase' = [loadBase EXCEPT ![s] = 0]
  /\ UNCHANGED << storage, metaStamp, queueVars, isApplyingRemote,
                  guardTimers, handled, onConflict, sinceSet,
                  nExternal, nFaults >>
  /\ UNCHANGED << quotaVars, managerVars >>

\* init() whose catch leaves the store not ready
ReadyOnFailure_Closed == FALSE

\* init(), catch (error): isReady = true
ReadyOnFailure == TRUE

\* init(): the read rejects; catch marks the store ready
InitFail(s) ==
  /\ initPc[s] = "loading"
  /\ nFaults < MaxFaults
  /\ nFaults' = nFaults + 1
  /\ isReady' = [isReady EXCEPT ![s] = ReadyOnFailure]
  /\ initPc' = [initPc EXCEPT ![s] = "done"]
  /\ loadBase' = [loadBase EXCEPT ![s] = 0]
  /\ UNCHANGED << storage, metaStamp, state, queueVars, engineVars,
                  onConflict, sinceSet, nExternal >>
  /\ UNCHANGED << quotaVars, managerVars >>

\* the byte counts getBytesInUse() reports: an empty area, and 80% of it
UsedBytes ==
  {0, (CHROME_SYNC_QUOTA * 1599) \div 2000,
   (CHROME_SYNC_QUOTA * 1599) \div 2000 + 1, (CHROME_SYNC_QUOTA * 4) \div 5}

\* a getQuota() that truncates the percentage to tenths
PercentTenths_Floor(used) == (used * 1000) \div CHROME_SYNC_QUOTA

\* getQuota(): percent = Math.round((used / total) * 100 * 10) / 10, here in
\* tenths of a percent
PercentTenths(used) ==
  (2 * used * 1000 + CHROME_SYNC_QUOTA) \div (2 * CHROME_SYNC_QUOTA)

\* checkQuota(): if (quota.percent >= quotaThreshold)
Warns(used) == PercentTenths(used) >= quotaThreshold * 10

\* checkQuota(): getBytesInUse() resolves with used; onQuotaWarning is called
\* if the threshold is reached, and throws or not; the call's promise settles
QuotaRead(s, used, throws) ==
  /\ quotaReads[s] > 0
  /\ quotaReads' = [quotaReads EXCEPT ![s] = @ - 1]
  /\ warned' = [warned EXCEPT
                  ![s] = IF Warns(used) THEN Append(@, throws) ELSE @]
  /\ Settle(s, CheckQuotaOutcome(FALSE, Warns(used) /\ throws))
  /\ UNCHANGED << storage, metaStamp, state, queueVars, engineVars,
                  facadeVars, nExternal, nFaults, onQuota, awaited,
                  managerVars >>

\* checkQuota(): getBytesInUse() rejects; the call's promise settles
QuotaReadFail(s) ==
  /\ quotaReads[s] > 0
  /\ nFaults < MaxFaults
  /\ nFaults' = nFaults + 1
  /\ quotaReads' = [quotaReads EXCEPT ![s] = @ - 1]
  /\ Settle(s, CheckQuotaOutcome(TRUE, FALSE))
  /\ UNCHANGED << storage, metaStamp, state, queueVars, engineVars,
                  facadeVars, nExternal, onQuota, awaited, warned,
                  managerVars >>

\* init(): the getBytesInUse() of its checkQuota() resolves with used;
\* onQuotaWarning is called if the threshold is reached, and throws or not
InitQuotaRead(s, used, throws) ==
  /\ initPc[s] = "quota"
  /\ initPc' = [initPc EXCEPT ![s] = "done"]
  /\ warned' = [warned EXCEPT
                  ![s] = IF Warns(used) THEN Append(@, throws) ELSE @]
  /\ UNCHANGED << storage, metaStamp, state, queueVars, engineVars, isReady,
                  loadBase, onConflict, sinceSet, nExternal, nFaults,
                  onQuota, awaited, quotaReads, resolved, rejected,
                  managerVars >>

\* init(): the getBytesInUse() of its checkQuota() rejects
InitQuotaReadFail(s) ==
  /\ initPc[s] = "quota"
  /\ nFaults < MaxFaults
  /\ nFaults' = nFaults + 1
  /\ initPc' = [initPc EXCEPT ![s] = "done"]
  /\ UNCHANGED << storage, metaStamp, state, queueVars, engineVars, isReady,
                  loadBase, onConflict, sinceSet, nExternal, quotaVars,
                  managerVars >>

\* ------------------------------------------------------ the remote store
\* the state objects another process writes
ExternalObjects == {[a |-> 2], [a |-> 1, b |-> 2]}

\* another process writes the state key; every listener is notified
ExternalWrite(v) ==
  /\ nExternal < MaxExternal
  /\ nExternal' = nExternal + 1
  /\ storage' = Stored(v)
  /\ Notify(v)
  /\ UNCHANGED << metaStamp, timeoutId, scheduled, isFlushing, flushPc, attempt,
                  dataToWrite, newState, lastError, retryTimer, onErrorCalls,
                  queuedLog, snapped, flushed, failures, writeFailures,
                  writeAttempts, raced, listener, onChanged, facadeVars,
                  nFaults >>
  /\ UNCHANGED << quotaVars, managerVars >>

\* ------------------------------------- one store and an outside writer
S1 == 1

Next ==
  \/ InitCall(S1)
  \/ InitLoaded(S1)
  \/ \E key \in Fields, value \in Values : Set(S1, key, value)
  \/ \E partial \in Partials : SetAll(S1, partial)
  \/ FlushRead(S1)
  \/ FlushWrite(S1)
  \/ GuardTimerFire(S1)
  \/ \E v \in ExternalObjects : ExternalWrite(v)
  \/ Step

Spec == Init /\ [][Next]_vars

\* --------------------------- one store over a remote store that can reject
NextRetry ==
  \/ InitCall(S1)
  \/ InitLoaded(S1)
  \/ InitFail(S1)
  \/ \E key \in Fields, value \in Values : Set(S1, key, value)
  \/ FlushRead(S1)
  \/ FlushReadFail(S1)
  \/ FlushWrite(S1)
  \/ FlushWriteFail(S1)
  \/ RetryFire(S1)
  \/ GuardTimerFire(S1)
  \/ Step

SpecRetry == Init /\ [][NextRetry]_vars

\* ------------------- one store with a resolver, and an outside writer
InitResolver == \E r \in Resolvers : Configured(Absent, r)

NextResolver ==
  \/ InitCall(S1)
  \/ InitLoaded(S1)
  \/ \E key \in Fields, value \in Values :
       Len(queuedLog[S1]) < MaxResolverSets /\ Set(S1, key, value)
  \/ FlushRead(S1)
  \/ FlushWrite(S1)
  \/ GuardTimerFire(S1)
  \/ \E v \in ExternalObjects : ExternalWrite(v)
  \/ Step

SpecResolver == InitResolver /\ [][NextResolver]_vars

\* ---- one store with onQuotaWarning, over a remote store that can reject
\* (init() is not called)
InitQuota == Built(Absent, "none", TRUE)

\* the values this store is given: the settlement of set() does not depend
\* on them
QuotaValues == {1}

NextQuota ==
  \/ \E key \in Fields, value \in QuotaValues : Set(S1, key, value)
  \/ FlushRead(S1)
  \/ FlushReadFail(S1)
  \/ FlushWrite(S1)
  \/ FlushWriteFail(S1)
  \/ RetryFire(S1)
  \/ GuardTimerFire(S1)
  \/ \E used \in UsedBytes, throws \in BOOLEAN : QuotaRead(S1, used, throws)
  \/ QuotaReadFail(S1)
  \/ Step

SpecQuota == InitQuota /\ [][NextQuota]_vars

\* ---- one store with onQuotaWarning that is initialised and written ----

NextWarn ==
  \/ InitCall(S1)
  \/ InitLoaded(S1)
  \/ \E used \in UsedBytes, throws \in BOOLEAN :
       InitQuotaRead(S1, used, throws)
  \/ InitQuotaReadFail(S1)
  \/ \E key \in Fields, value \in QuotaValues :
       Len(queuedLog[S1]) < MaxWarnSets /\ Set(S1, key, value)
  \/ \E partial \in {[k \in Fields |-> 1]} :
       Len(queuedLog[S1]) < MaxWarnSets /\ SetAll(S1, partial)
  \/ FlushRead(S1)
  \/ FlushWrite(S1)
  \/ GuardTimerFire(S1)
  \/ \E used \in UsedBytes, throws \in BOOLEAN : QuotaRead(S1, used, throws)
  \/ QuotaReadFail(S1)
  \/ Step

SpecWarn == InitQuota /\ [][NextWarn]_vars

\* ------------------------------------- two stores sharing the remote key
\* set(key, value) on a store whose init() has resolved
SetShared(s, key, value) ==
  /\ isReady[s]
  /\ Len(queuedLog[1]) + Len(queuedLog[2]) < MaxSharedSets
  /\ Set(s, key, value)

NextTwo ==
  \/ \E s \in Stores : InitCall(s)
  \/ \E s \in Stores : InitLoaded(s)
  \/ \E s \in Stores, key \in Fields, value \in Values : SetShared(s, key, value)
  \/ \E s \in Stores : FlushRead(s)
  \/ \E s \in Stores : FlushWrite(s)
  \/ \E s \in Stores : GuardTimerFire(s)
  \/ Step

SpecTwo == Init /\ [][NextTwo]_vars

\* ------------------------------------------- a stand-alone StateManager
\* the manager is state[M]; the stores of the other specifications have no
\* subscriber
M == 1

\* the callback functions handed to subscribe / subscribeAll, and those of
\* them that throw when called
Callbacks == {1, 2}
Throwing == {1}
Sources == {"local", "remote"}

\* the members of a Set kept as a sequence
Members(q) == {q[i] : i \in 1..Len(q)}

\* Set.add and Set.delete
SetAdd(q, cb) == IF cb \in Members(q) THEN q ELSE Append(q, cb)
\* a delete that empties the Set
SetDelete_Clear(q, cb) == << >>
SetDelete(q, cb) == SelectSeq(q, LAMBDA c : c # cb)

\* callback(value, source) of a per-field subscriber, and
\* callback(this.getAll(), changedKeys, source) of a whole-state subscriber
KeyCall(cb, key, value, source) ==
  [cb |-> cb, channel |-> key, value |-> value, snapshot |-> EmptyObject,
   keys |-> << >>, source |-> source]
AllCall(cb, snapshot, keys, source) ==
  [cb |-> cb, channel |-> "*", value |-> 0, snapshot |-> snapshot,
   keys |-> keys, source |-> source]

\* a notifyKey that walks the Set from its last member to its first
NotifyKey_Reversed(key, value, source) ==
  [i \in 1..Len(keySubscribers[key]) |->
     KeyCall(keySubscribers[key][Len(keySubscribers[key]) + 1 - i],
             key, value, source)]

\* notifyKey(key, value, source): the calls it is due to make, in order
NotifyKey(key, value, source) ==
  [i \in 1..Len(keySubscribers[key]) |->
     KeyCall(keySubscribers[key][i], key, value, source)]

\* notifyAll(changedKeys, source): the calls it is due to make, in order
NotifyAll(snapshot, keys, source) ==
  [i \in 1..Len(allSubscribers) |->
     AllCall(allSubscribers[i], snapshot, keys, source)]

\* notifyKey for each of keys in turn, with the value obj gives to the key
RECURSIVE NotifyKeys(_, _, _)
NotifyKeys(keys, obj, source) ==
  IF keys = << >> THEN << >>
  ELSE NotifyKey(Head(keys), obj[Head(keys)], source)
         \o NotifyKeys(Tail(keys), obj, source)

\* a notify loop without try/catch
Propagates_Uncaught(cb) == cb \in Throwing

\* notifyKey / notifyAll: try { callback(...) } catch (e) { console.error }
Propagates(cb) == FALSE

\* the calls made out of the calls due: all up to the first whose exception
\* leaves the loop
RECURSIVE Made(_)
Made(due) ==
  IF due = << >> THEN << >>
  ELSE IF Propagates(Head(due).cb) THEN << Head(due) >>
  ELSE << Head(due) >> \o Made(Tail(due))

\* no exception leaves the operation
Completes(due) == \A i \in 1..Len(due) : ~Propagates(due[i].cb)

\* a comparison that finds every value new
Differs_Always(cur, key, value) == TRUE

\* !Object.is(this.state[key], value)
Differs(cur, key, value) == key \notin DOMAIN cur \/ cur[key] # value

\* a loop that lists every field of the new object
ChangedKeys_All(cur, new) == KeysOf(new)

\* the fields of new whose value is not the one cur has, in order
ChangedKeys(cur, new) ==
  SelectSeq(KeysOf(new), LAMBDA k : Differs(cur, k, new[k]))

storeVars == << storage, metaStamp, queueVars, engineVars, facadeVars,
                nExternal, nFaults, quotaVars >>

\* an operation of the manager that leaves the state new, finds the fields
\* keys changed and is due to make the calls due
Operate(new, keys, due) ==
  /\ state' = [state EXCEPT ![M] = new]
  /\ changed' = keys
  /\ fired' = Made(due)
  /\ returned' = Completes(due)
  /\ UNCHANGED << keySubscribers, allSubscribers, storeVars >>

\* update(key, value, source): the fields it finds changed and the calls it
\* is due to make
UpdateKeys(key, value) ==
  IF Differs(state[M], key, value) THEN << key >> ELSE << >>
UpdateCalls(key, value, source) ==
  IF Len(UpdateKeys(key, value)) > 0
  THEN NotifyKey(key, value, source)
         \o NotifyAll(Update(state[M], key, value), << key >>, source)
  ELSE << >>

\* update(key, value, source)
UpdateOp(key, value, source) ==
  Operate(Update(state[M], key, value), UpdateKeys(key, value),
          UpdateCalls(key, value, source))

\* updateMultiple(partial, source): the calls it is due to make
UpdateMultipleCalls(partial, source) ==
  LET changedKeys == ChangedKeys(state[M], partial)
  IN NotifyKeys(changedKeys, partial, source)
       \o IF Len(changedKeys) > 0
          THEN NotifyAll(UpdateMultiple(state[M], partial), changedKeys, source)
          ELSE << >>

\* updateMultiple(partial, source)
UpdateMultipleOp(partial, source) ==
  Operate(UpdateMultiple(state[M], partial), ChangedKeys(state[M], partial),
          UpdateMultipleCalls(partial, source))

\* replaceState(newState, source): the calls it is due to make
ReplaceCalls(replacement, source) ==
  LET new == ReplaceState(state[M], replacement)
      changedKeys == ChangedKeys(state[M], replacement)
  IN NotifyKeys(changedKeys, new, source)
       \o IF Len(changedKeys) > 0
          THEN NotifyAll(new, changedKeys, source) ELSE << >>

\* replaceState(newState, source)
ReplaceOp(replacement, source) ==
  Operate(ReplaceState(state[M], replacement),
          ChangedKeys(state[M], replacement),
          ReplaceCalls(replacement, source))

\* the subscriptions the manager holds
Listeners ==
  Len(allSubscribers) + Len(keySubscribers["a"]) + Len(keySubscribers["b"])

\* subscribe(key, callback)
Subscribe(key, cb) ==
  /\ Listeners < MaxListeners
  /\ keySubscribers' = [keySubscribers EXCEPT ![key] = SetAdd(@, cb)]
  /\ UNCHANGED << state, allSubscribers, changed, fired, returned, storeVars >>

\* the function returned by subscribe(key, callback)
Unsubscribe(key, cb) ==
  /\ cb \in Members(keySubscribers[key])
  /\ keySubscribers' = [keySubscribers EXCEPT ![key] = SetDelete(@, cb)]
  /\ UNCHANGED << state, allSubscribers, changed, fired, returned, storeVars >>

\* subscribeAll(callback)
SubscribeAll(cb) ==
  /\ Listeners < MaxListeners
  /\ allSubscribers' = SetAdd(allSubscribers, cb)
  /\ UNCHANGED << state, keySubscribers, changed, fired, returned, storeVars >>

\* the function returned by subscribeAll(callback)
UnsubscribeAll(cb) ==
  /\ cb \in Members(allSubscribers)
  /\ allSubscribers' = SetDelete(allSubscribers, cb)
  /\ UNCHANGED << state, keySubscribers, changed, fired, returned, storeVars >>

\* the objects handed to replaceState: one lacks a field
Replacements == {[a |-> 1], [a |-> 1, b |-> 1], [a |-> 2, b |-> 1]}

NextState ==
  \/ \E key \in Fields, value \in Values, source \in Sources :
       UpdateOp(key, value, source)
  \/ \E partial \in Partials, source \in Sources :
       UpdateMultipleOp(partial, source)
  \/ \E replacement \in Replacements, source \in Sources :
       ReplaceOp(replacement, source)
  \/ \E key \in Fields, cb \in Callbacks : Subscribe(key, cb)
  \/ \E key \in Fields, cb \in Callbacks : Unsubscribe(key, cb)
  \/ \E cb \in Callbacks : SubscribeAll(cb)
  \/ \E cb \in Callbacks : UnsubscribeAll(cb)

SpecState == Init /\ [][NextState]_vars

\* ------------------------------------------------ a store with subscribers
\* the calls update / updateMultiple make inside set() / setAll()
Notified(keys, calls) ==
  /\ changed' = keys
  /\ fired' = Made(calls)
  /\ returned' = Completes(calls)
  /\ UNCHANGED << keySubscribers, allSubscribers >>

\* store.set(key, value) on the store whose manager is M
SetNotify(key, value) ==
  /\ StoreWriteCore(M, [k \in {key} |-> value], Update(state[M], key, value))
  /\ Notified(UpdateKeys(key, value), UpdateCalls(key, value, "local"))

\* store.setAll(partial) on the store whose manager is M
SetAllNotify(partial) ==
  /\ StoreWriteCore(M, partial, UpdateMultiple(state[M], partial))
  /\ Notified(ChangedKeys(state[M], partial),
              UpdateMultipleCalls(partial, "local"))

NextNotify ==
  \/ \E key \in Fields, cb \in Callbacks : Subscribe(key, cb)
  \/ \E cb \in Callbacks : SubscribeAll(cb)
  \/ \E key \in Fields, value \in Values :
       Len(queuedLog[M]) < MaxNotifySets /\ SetNotify(key, value)
  \/ \E partial \in Partials :
       Len(queuedLog[M]) < MaxNotifySets /\ SetAllNotify(partial)
  \/ FlushRead(M)
  \/ FlushWrite(M)
  \/ GuardTimerFire(M)
  \/ Step

SpecNotify == Init /\ [][NextNotify]_vars

\* ---- change notifications of every kind, to a store with subscribers ----

Areas == {"sync", "local"}

\* the calls of the listeners: writes of the state key in either area, a
\* change of other keys only, and the removal of the state key
Notifications ==
  {Notification(area, TRUE, TRUE, v) : area \in Areas, v \in ExternalObjects}
    \cup {Notification(area, FALSE, FALSE, EmptyObject) : area \in Areas}
    \cup {Notification(area, TRUE, FALSE, EmptyObject) : area \in Areas}

\* what the change behind n leaves under the state key of the sync area
Remaining(n) ==
  IF n.area = "sync" /\ n.hasKey
  THEN (IF n.hasNew THEN Stored(n.value) ELSE Absent)
  ELSE storage

\* another context changes chrome.storage and the listeners are called with
\* n; the store whose manager is M notifies its subscribers when it reacts
Receive(n) ==
  /\ nExternal < MaxNotifications
  /\ nExternal' = nExternal + 1
  /\ storage' = Remaining(n)
  /\ NotifyOf(n)
  /\ IF Reacts(M, n)
     THEN LET resolvedState ==
                ResolveConflicts(state[M], n.value, onConflict[M])
          IN Notified(ChangedKeys(state[M], resolvedState),
                      ReplaceCalls(resolvedState, "remote"))
     ELSE UNCHANGED managerVars
  /\ UNCHANGED << metaStamp, timeoutId, scheduled, isFlushing, flushPc, attempt,
                  dataToWrite, newState, lastError, retryTimer, onErrorCalls,
                  queuedLog, snapped, flushed, failures, writeFailures,
                  writeAttempts, raced, listener, onChanged, facadeVars,
                  nFaults >>
  /\ UNCHANGED quotaVars

NextFilter ==
  \/ InitCall(M)
  \/ InitLoaded(M)
  \/ \E key \in Fields, cb \in Callbacks : Subscribe(key, cb)
  \/ \E cb \in Callbacks : SubscribeAll(cb)
  \/ \E n \in Notifications : Receive(n)
  \/ GuardTimerFire(M)
  \/ Step

SpecFilter == Init /\ [][NextFilter]_vars

\* ---- a SyncEngine that is started and stopped by its owner ----

\* syncEngine.start()
Start(s) ==
  /\ Started(s)
  /\ UNCHANGED << storage, metaStamp, state, queueVars, isApplyingRemote,
                  guardTimers, handled, facadeVars, nExternal, nFaults >>
  /\ UNCHANGED << quotaVars, managerVars >>

\* syncEngine.stop()
Stop(s) ==
  /\ Stopped(s)
  /\ UNCHANGED << storage, metaStamp, state, queueVars, isApplyingRemote,
                  guardTimers, handled, facadeVars, nExternal, nFaults >>
  /\ UNCHANGED << quotaVars, managerVars >>

NextEngine ==
  \/ Start(M)
  \/ Stop(M)
  \/ \E key \in Fields, cb \in Callbacks : Subscribe(key, cb)
  \/ \E n \in Notifications : Receive(n)
  \/ GuardTimerFire(M)
  \/ Step

SpecEngine == Init /\ [][NextEngine]_vars

\* ---- a SyncEngine with a resolver over a manager built from any snapshot ----

\* the objects a StateManager can be constructed with
Snapshots == UNION {[D -> Values] : D \in SUBSET Fields}

InitSnapshot ==
  \E first \in Snapshots, r \in Resolvers \ {"none"} :
    BuiltFrom(Absent, r, FALSE, first)

NextSnapshot ==
  \/ Start(M)
  \/ \E n \in Notifications : Receive(n)
  \/ GuardTimerFire(M)
  \/ Step

SpecSnapshot == InitSnapshot /\ [][NextSnapshot]_vars

\* ------------------------------------------------- the history of queue()
\* the fields named by calls lo+1 .. hi of a log of queue() data
Mentioned(log, lo, hi) == UNION {DOMAIN log[i] : i \in (lo + 1)..hi}

\* the value the latest of the calls lo+1 .. hi gives to field f
Latest(log, lo, hi, f) ==
  log[CHOOSE i \in (lo + 1)..hi :
        /\ f \in DOMAIN log[i]
        /\ \A j \in (i + 1)..hi : f \notin DOMAIN log[j]][f]

\* the calls whose data is in pendingData are PendingBase(s)+1 .. Len(log)
PendingBase(s) == IF flushPc[s] = "failed" THEN flushed[s] ELSE snapped[s]

\* a step in which the flush() of s writes to the remote store and returns
WriteStep(s) == flushPc[s] = "set" /\ flushPc'[s] = "written"

\* a step in which the last attempt of the flush() of s fails
ExhaustStep(s) == InFlight(s) /\ flushPc'[s] = "failed"

\* no flush() of s is running and no timer of its queue is pending: the
\* queue of s writes nothing more unless it is called again
QueueAtRest(s) ==
  ~InFlight(s) /\ timeoutId[s] = NoTimer /\ retryTimer[s] = NoTimer

\* the remote state key holds value v for field f
RemoteHolds(st, f, v) == st.has /\ f \in DOMAIN st.value /\ st.value[f] = v

\* the set()/setAll() calls of s whose promise resolves in this step: the
\* call whose flush() returned at the guard, and the call whose flush() has
\* written or given up
Resolving(s) ==
  LET n == Len(queuedLog'[s])
  IN IF /\ queuedLog'[s] # queuedLog[s]
        /\ FlushSkips(QueueMerge(pendingData[s], queuedLog'[s][n]), isFlushing[s])
     THEN {n}
     ELSE IF WriteStep(s) \/ ExhaustStep(s) THEN {snapped[s]} ELSE {}

\* a step in which a change of the remote state key is notified
NotifyStep == metaStamp' # metaStamp \/ nExternal' # nExternal

\* C1 as stated: every value passed to set()/setAll() reaches the remote
\* state key without a further call.  Refuted as: when the queue of a store
\* is at rest (and only that store has written), the remote key holds every
\* value still in its pending buffer.
C1_AsStated ==
  \A s \in Stores :
    (QueueAtRest(s) /\ pendingData[s] # Null /\ nExternal = 0) =>
      \A f \in DOMAIN pendingData[s] :
        RemoteHolds(storage, f, pendingData[s][f])

\* C2 as stated: when the promise of a set() on an initialized store
\* resolves, the remote state key holds the value of each field of the call,
\* or the value a later call of the store gave to that field.
C2_AsStated ==
  [][\A s \in Stores : \A i \in Resolving(s) :
       isReady[s] =>
         \A f \in DOMAIN queuedLog'[s][i] :
           \E j \in i..Len(queuedLog'[s]) :
             /\ f \in DOMAIN queuedLog'[s][j]
             /\ RemoteHolds(storage', f, queuedLog'[s][j][f])]_vars

\* C3 as stated: a change notification delivered less than 1000 ms after a
\* set()/setAll() of a store is ignored by that store.
C3_AsStated ==
  [][\A s \in Stores :
       (NotifyStep /\ sinceSet[s] < LOCAL_WRITE_DELAY) => ~handled'[s]]_vars

\* C4 as stated: the notification of a store's own remote write never
\* reaches replaceState in that store.
C4_AsStated ==
  [][\A s \in Stores : WriteStep(s) => ~handled'[s]]_vars

\* C5 as stated: when both stores listen, no flush is running and no data is
\* pending, the state of each store agrees with the remote state key on
\* every field of it.
C5_AsStated ==
  (/\ storage.has
   /\ \A s \in Stores :
        listener[s] /\ QueueAtRest(s) /\ pendingData[s] = Null)
  => \A s \in Stores : \A f \in DOMAIN storage.value :
       f \in DOMAIN state[s] /\ state[s][f] = storage.value[f]

\* C6: when the maxRetries-th attempt of a flush fails, onError is called
\* once more, with the error of that attempt, and the buffer is non-empty
\* once the flush has settled; no other step calls onError.
C6_RetryExhaustion ==
  [][\A s \in Stores :
       IF failures'[s] = maxRetries /\ failures[s] = maxRetries - 1
       THEN /\ onErrorCalls'[s] =
                 Append(onErrorCalls[s], ErrorOf(maxRetries - 1, flushPc[s]))
            /\ ~isFlushing'[s]
            /\ pendingData'[s] # Null
       ELSE onErrorCalls'[s] = onErrorCalls[s]]_vars

C6_Witness ==
  /\ flushPc[Q] = "failed"
  /\ failures[Q] = maxRetries
  /\ Len(onErrorCalls[Q]) = 1
  /\ onErrorCalls[Q][1].attempt = maxRetries - 1
  /\ pendingData[Q] # Null

\* C7: when a flush exhausts its attempts, the buffer afterwards has every
\* field of the failed snapshot and of the data queued during the flush, and
\* a field of both has the value queued during the flush.
C7_FailureRecovery ==
  [][\A s \in Stores :
       ExhaustStep(s) =>
         LET log == queuedLog[s]
             newer == Mentioned(log, snapped[s], Len(log))
         IN /\ pendingData'[s] # Null
            /\ DOMAIN pendingData'[s] = (DOMAIN dataToWrite[s]) \cup newer
            /\ \A f \in DOMAIN pendingData'[s] :
                 pendingData'[s][f] =
                   IF f \in newer THEN Latest(log, snapped[s], Len(log), f)
                   ELSE dataToWrite[s][f]]_vars

C7_Witness ==
  /\ flushPc[Q] = "failed"
  /\ raced[Q]
  /\ Len(queuedLog[Q]) = snapped[Q] + 1
  /\ \E f \in Fields, g \in Fields :
       /\ f \in Mentioned(queuedLog[Q], flushed[Q], snapped[Q])
       /\ f \in DOMAIN queuedLog[Q][Len(queuedLog[Q])]
       /\ Latest(queuedLog[Q], flushed[Q], snapped[Q], f)
            # queuedLog[Q][Len(queuedLog[Q])][f]
       /\ pendingData[Q][f] = queuedLog[Q][Len(queuedLog[Q])][f]
       /\ g \in Mentioned(queuedLog[Q], flushed[Q], snapped[Q])
       /\ g \notin DOMAIN queuedLog[Q][Len(queuedLog[Q])]
       /\ g \in DOMAIN pendingData[Q]

\* the value written is the data over the remote value: data's fields have
\* data's values, the other fields of the remote value are kept
WrittenOver(written, data, remote) ==
  /\ DOMAIN written = (DOMAIN data) \cup (DOMAIN remote)
  /\ \A f \in DOMAIN data : written[f] = data[f]
  /\ \A f \in (DOMAIN remote) \ (DOMAIN data) : written[f] = remote[f]

\* C8 as stated: after k < maxRetries failed writes and a success there were
\* k+1 write attempts, no onError call, the persisted value is the queued
\* data over the remote value, and the pending buffer is empty.
C8_AsStated ==
  [][\A s \in Stores :
       WriteStep(s) =>
         /\ writeFailures[s] < maxRetries
         /\ writeAttempts[s] = writeFailures[s] + 1
         /\ onErrorCalls'[s] = onErrorCalls[s]
         /\ storage'.has
         /\ WrittenOver(storage'.value, dataToWrite[s], CurrentState(storage))
         /\ pendingData'[s] = Null]_vars

\* C8, amended: the same, but the pending buffer is empty only if no queue()
\* call was made while the flush ran; otherwise it holds what they queued.
C8_RetryThenSuccess ==
  [][\A s \in Stores :
       WriteStep(s) =>
         LET log == queuedLog[s]
             newer == Mentioned(log, snapped[s], Len(log))
         IN /\ writeFailures[s] < maxRetries
            /\ writeAttempts[s] = writeFailures[s] + 1
            /\ onErrorCalls'[s] = onErrorCalls[s]
            /\ storage'.has
            /\ WrittenOver(storage'.value, dataToWrite[s], CurrentState(storage))
            /\ ~raced[s] => pendingData'[s] = Null
            /\ raced[s] =>
                 /\ pendingData'[s] # Null
                 /\ DOMAIN pendingData'[s] = newer
                 /\ \A f \in newer :
                      pendingData'[s][f] = Latest(log, snapped[s], Len(log), f)]_vars

C8_Witness ==
  /\ flushPc[Q] = "written"
  /\ writeFailures[Q] = maxRetries - 1
  /\ writeAttempts[Q] = maxRetries
  /\ onErrorCalls[Q] = << >>
  /\ pendingData[Q] = Null
  /\ storage.has
  /\ \E f \in DOMAIN storage.value : storage.value[f] = 2

\* C9: the queue() calls made before a flush took its snapshot produce one
\* remote write; each field named by a call has the value of the latest call
\* naming it, every other field keeps the value the remote store had.
C9_Coalescing ==
  [][\A s \in Stores :
       WriteStep(s) =>
         LET log == queuedLog[s]
             batch == Mentioned(log, flushed[s], snapped[s])
             remote == CurrentState(storage)
         IN /\ metaStamp' = metaStamp + 1
            /\ storage'.has
            /\ DOMAIN storage'.value = batch \cup DOMAIN remote
            /\ \A f \in DOMAIN storage'.value :
                 storage'.value[f] =
                   IF f \in batch THEN Latest(log, flushed[s], snapped[s], f)
                   ELSE remote[f]]_vars

C9_Witness ==
  /\ flushPc[Q] = "written"
  /\ snapped[Q] = flushed[Q] + 2
  /\ metaStamp = 1
  /\ DOMAIN queuedLog[Q][1] = {"a"}
  /\ DOMAIN queuedLog[Q][2] = {"b"}
  /\ storage.value = [a |-> queuedLog[Q][1].a, b |-> queuedLog[Q][2].b]

\* C10: with no resolver, a notification that is handled leaves the state
\* with the remote value in every field of the remote snapshot and the local
\* value in every other field.
C10_DefaultPolicy ==
  [][\A s \in Stores :
       (NotifyStep /\ handled'[s] /\ onConflict[s] = "none") =>
         LET remote == storage'.value
         IN /\ DOMAIN state'[s] = (DOMAIN state[s]) \cup (DOMAIN remote)
            /\ \A f \in DOMAIN remote : state'[s][f] = remote[f]
            /\ \A f \in (DOMAIN state[s]) \ (DOMAIN remote) :
                 state'[s][f] = state[s][f]]_vars

\* set("b", 1) was written, then the outside process wrote { a: 2 } and the
\* store handled the notification: a is remote, b is still local
C10_Witness ==
  /\ handled[S1]
  /\ onConflict[S1] = "none"
  /\ queuedLog[S1] = << [b |-> 1] >>
  /\ flushPc[S1] = "written"
  /\ nExternal = 1
  /\ storage = Stored([a |-> 2])
  /\ state[S1] = [a |-> 2, b |-> 1]

\* C11: with a resolver that returns context.local, a handled notification
\* leaves every field whose local and remote values differ at its local value.
C11_ResolverPrecedence ==
  [][\A s \in Stores :
       (NotifyStep /\ handled'[s] /\ onConflict[s] = "local") =>
         \A f \in (DOMAIN state[s]) \cap (DOMAIN storage'.value) :
           state[s][f] # storage'.value[f] => state'[s][f] = state[s][f]]_vars

\* the outside process wrote a = 2 over a store that never called set(), and
\* the store, having handled the notification, still has its own a
C11_Witness ==
  /\ onConflict[S1] = "local"
  /\ handled[S1]
  /\ queuedLog[S1] = << >>
  /\ nExternal = 1
  /\ storage.value["a"] = 2
  /\ state[S1]["a"] = initial["a"]

\* C12: every field of the initial object is a field of the in-memory state,
\* whatever init(), set(), setAll() and handled notifications have done.
C12_FieldPresence ==
  \A s \in Stores : (DOMAIN initial) \subseteq (DOMAIN state[s])

\* a notification whose snapshot has no field b was handled with a resolver
C12_Witness ==
  /\ onConflict[S1] = "remote"
  /\ handled[S1]
  /\ storage = Stored([a |-> 2])
  /\ state[S1]["a"] = 2
  /\ "b" \in DOMAIN state[S1]

\* a step in which the read of init() resolves
LoadStep(s) == initPc[s] = "loading" /\ initPc'[s] = "done" /\ listener'[s]

\* C13: when init() has read snapshot R from the remote state key, the state
\* has R's value in every field of R and the default in every other field.
C13_InitialLoad ==
  [][\A s \in Stores :
       (LoadStep(s) /\ storage.has) =>
         /\ DOMAIN state'[s] = (DOMAIN initial) \cup (DOMAIN storage.value)
         /\ \A f \in DOMAIN storage.value : state'[s][f] = storage.value[f]
         /\ \A f \in (DOMAIN initial) \ (DOMAIN storage.value) :
              state'[s][f] = initial[f]]_vars

\* init() found { a: 2 } written by the outside process before the store
\* listened: a is loaded, b has its default
C13_Witness ==
  /\ initPc[S1] = "done"
  /\ listener[S1]
  /\ ~handled[S1]
  /\ queuedLog[S1] = << >>
  /\ storage = Stored([a |-> 2])
  /\ state[S1] = [a |-> 2, b |-> initial["b"]]

\* a step in which the read of init() rejects
FailStep(s) == initPc[s] = "loading" /\ initPc'[s] = "done" /\ ~listener'[s]

\* isReady() is false until the read of init() has settled, true once init()
\* has settled, and never goes back to false
ReadyMachine(s) ==
  /\ initPc[s] # "done" => ~isReady[s]
  /\ initPc'[s] # "done" => ~isReady'[s]
  /\ initPc'[s] = "done" => isReady'[s]
  /\ isReady[s] => isReady'[s]

Unsettled(s) == quotaReads[s] + IF awaited[s] THEN 1 ELSE 0

\* C15: no promise of set()/setAll() rejects, every call has resolved or is
\* still waiting for the remote store, the call's value is in the state when
\* it returns, and no failure or settlement changes the state.
C15_SetNeverRejects ==
  [][\A s \in Stores :
       /\ rejected'[s] = 0
       /\ resolved'[s] + Unsettled(s)' = Len(queuedLog'[s])
       /\ queuedLog'[s] # queuedLog[s] =>
            \A f \in DOMAIN queuedLog'[s][Len(queuedLog'[s])] :
              state'[s][f] = queuedLog'[s][Len(queuedLog'[s])][f]
       /\ (nFaults' # nFaults \/ resolved'[s] # resolved[s]) =>
            state'[s] = state[s]]_vars

\* every attempt of the flush of a set() failed, the quota read succeeded,
\* onQuotaWarning threw, and the promise has resolved with the value in memory
C15_Witness ==
  /\ flushPc[S1] = "failed"
  /\ failures[S1] = maxRetries
  /\ Len(queuedLog[S1]) = 1
  /\ warned[S1] = << TRUE >>
  /\ resolved[S1] = 1
  /\ rejected[S1] = 0
  /\ \A f \in DOMAIN queuedLog[S1][1] : state[S1][f] = queuedLog[S1][1][f]

\* C16 as stated: the remote store is not written until the debounce
\* interval has elapsed since the set() whose value the write carries.
C16_AsStated ==
  [][\A s \in Stores :
       (WriteStep(s) /\ ~raced[s]) => sinceSet[s] >= debounce]_vars

\* a step of update, updateMultiple or replaceState
OperationStep ==
  keySubscribers' = keySubscribers /\ allSubscribers' = allSubscribers

\* obj gives to each of its fields the value cur has for it
SameValues(cur, obj) ==
  \A f \in DOMAIN obj : f \in DOMAIN cur /\ cur[f] = obj[f]

\* C17: an update whose value is the current value of the field, an
\* updateMultiple whose fields all have their current value and a
\* replaceState whose new state is the current state leave the state
\* unchanged, find no field changed and call no subscriber, per-field or
\* whole-state.
C17_NoOpUpdate ==
  /\ \A key \in Fields, value \in Values, source \in Sources :
       SameValues(state[M], [f \in {key} |-> value]) =>
         /\ Update(state[M], key, value) = state[M]
         /\ UpdateKeys(key, value) = << >>
         /\ Made(UpdateCalls(key, value, source)) = << >>
  /\ \A partial \in Partials, source \in Sources :
       SameValues(state[M], partial) =>
         /\ UpdateMultiple(state[M], partial) = state[M]
         /\ ChangedKeys(state[M], partial) = << >>
         /\ Made(UpdateMultipleCalls(partial, source)) = << >>
  /\ \A replacement \in Replacements, source \in Sources :
       replacement = state[M] =>
         /\ ReplaceState(state[M], replacement) = state[M]
         /\ ChangedKeys(state[M], replacement) = << >>
         /\ Made(ReplaceCalls(replacement, source)) = << >>

\* an operation has just found nothing changed and called nobody although
\* subscribers of both kinds are registered, after one that called some
C17_Witness ==
  /\ changed = << >>
  /\ fired = << >>
  /\ state[M] = [a |-> 1, b |-> initial["b"]]
  /\ keySubscribers["a"] # << >>
  /\ allSubscribers # << >>

\* the calls due for a change of the fields keys that leaves the state new:
\* the subscribers of each changed field in turn, in the order of their
\* registration, then the whole-state subscribers
CallsDue(new, keys, source) ==
  NotifyKeys(keys, new, source)
    \o IF Len(keys) > 0 THEN NotifyAll(new, keys, source) ELSE << >>

\* C18: an update, updateMultiple or replaceState returns normally to its
\* caller, leaves every field it found changed with its new value, and
\* calls every per-field subscriber of each changed field and every
\* whole-state subscriber, those registered after a subscriber that throws
\* included.
C18_FailureIsolation ==
  [][OperationStep =>
       /\ returned'
       /\ \A i \in 1..Len(changed') :
            /\ changed'[i] \in DOMAIN state'[M]
            /\ Differs(state[M], changed'[i], state'[M][changed'[i]])
       /\ \E source \in Sources :
            fired' = CallsDue(state'[M], changed', source)]_vars

\* a change of field a has called a per-field subscriber that throws, then
\* the next per-field subscriber and the whole-state subscriber, and has
\* returned
C18_Witness ==
  /\ returned
  /\ changed = << "a" >>
  /\ Len(fired) = 3
  /\ fired[1].cb \in Throwing /\ fired[1].channel = "a"
  /\ fired[2].cb \notin Throwing /\ fired[2].channel = "a"
  /\ fired[3].channel = "*"
  /\ fired[3].snapshot = state[M]

\* the channels a callback is registered on: a field, or "*" for the whole
\* state; and the Set of the callbacks registered on a channel
Channels == Fields \cup {"*"}
Subscribers(channel) ==
  IF channel = "*" THEN allSubscribers ELSE keySubscribers[channel]

\* callback cb is called on channel by the calls made
Called(calls, channel, cb) ==
  \E i \in 1..Len(calls) : calls[i].cb = cb /\ calls[i].channel = channel

\* C19: calling an unsubscribe function removes one callback from one channel
\* and leaves every other registration, on that channel and on the others,
\* as it was; and a state change calls, on the channels it concerns, the
\* callbacks registered on them at that time and no other: a callback that
\* was removed from a channel is not called on it, the others still are.
C19_Unsubscribe ==
  [][/\ Listeners' < Listeners =>
          \E channel \in Channels :
            \E cb \in Members(Subscribers(channel)) :
              /\ Subscribers(channel)' =
                   SelectSeq(Subscribers(channel), LAMBDA c : c # cb)
              /\ \A other \in Channels \ {channel} :
                   Subscribers(other)' = Subscribers(other)
     /\ OperationStep =>
          \A channel \in Channels, cb \in Callbacks :
            Called(fired', channel, cb) <=>
              /\ cb \in Members(Subscribers(channel))
              /\ IF channel = "*" THEN changed' # << >>
                 ELSE \E i \in 1..Len(changed') : changed'[i] = channel]_vars

\* callback 1 has been removed from field a, on which the last change
\* called it before callback 2; callback 2 is still registered on field a,
\* and callback 1 on the whole state
C19_Witness ==
  /\ Len(fired) = 3
  /\ fired[1].cb = 1 /\ fired[1].channel = "a"
  /\ fired[2].cb = 2 /\ fired[2].channel = "a"
  /\ fired[3].cb = 1 /\ fired[3].channel = "*"
  /\ keySubscribers["a"] = << 2 >>
  /\ allSubscribers = << 1 >>

\* a step in which a flush() of s takes the pending buffer as its snapshot
SnapshotStep(s) == pendingData[s] # Null /\ pendingData'[s] = Null

\* a step in which flush() is invoked on s while its debounce timer is
\* pending: flush() clears the timer before its guard
ClearStep(s) == timeoutId[s] # NoTimer /\ timeoutId'[s] = NoTimer

\* C20: isFlushing is set exactly while a flush() is between its snapshot
\* and its return; a flush() takes its snapshot only when no other is in
\* flight; a flush() invoked while another is in flight leaves the pending
\* buffer, the remote store and the progress of the flush in flight as they
\* were.
C20_SingleFlight ==
  [][\A s \in Stores :
       /\ isFlushing[s] <=> InFlight(s)
       /\ SnapshotStep(s) => ~InFlight(s) /\ InFlight(s)'
       /\ (ClearStep(s) /\ InFlight(s)) =>
            /\ pendingData'[s] = pendingData[s]
            /\ storage' = storage /\ metaStamp' = metaStamp
            /\ flushPc'[s] = flushPc[s]
            /\ attempt'[s] = attempt[s]
            /\ dataToWrite'[s] = dataToWrite[s]
            /\ writeAttempts'[s] = writeAttempts[s]
            /\ isFlushing'[s]]_vars

\* data was queued during a flush, and a flush() invoked before that flush
\* returned has cleared the debounce timer and left the data in the buffer
C20_Witness ==
  /\ InFlight(Q)
  /\ raced[Q]
  /\ pendingData[Q] # Null
  /\ timeoutId[Q] = NoTimer
  /\ snapped[Q] < Len(queuedLog[Q])

\* the value object obj has for field f, or none
FieldOf(obj, f) == IF f \in DOMAIN obj THEN << obj[f] >> ELSE << >>

\* C21: the write of a flush leaves every field that is not in its
\* snapshot as the flush read it (newState has the value read for such a
\* field), whatever another writer has made of the field since the read.
C21_LostUpdate ==
  [][\A s \in Stores :
       WriteStep(s) =>
         \A f \in Fields \ DOMAIN dataToWrite[s] :
           FieldOf(storage'.value, f) = FieldOf(newState[s], f)]_vars

\* the only set() of the store named field b; its flush read the absent
\* key, the outside process then wrote a = 2, and the write of the flush
\* has left the key without field a
C21_Witness ==
  /\ flushPc[S1] = "written"
  /\ queuedLog[S1] = << [b |-> 1] >>
  /\ nExternal = 1
  /\ metaStamp = 1
  /\ storage = Stored([b |-> 1])

\* C22: snapshots are taken in call order, and each remote write of a store
\* leaves every field named by a call made before its snapshot with the
\* value of the latest such call; so no later write of the store carries
\* the value of an earlier call for a field once a later call's value was
\* written, whether the data was queued during a flush, written on a retry
\* or merged back after a failed flush.
C22_WriteOrder ==
  [][\A s \in Stores :
       /\ snapped'[s] >= snapped[s]
       /\ WriteStep(s) =>
            \A f \in Mentioned(queuedLog[s], 0, snapped[s]) :
              RemoteHolds(storage', f, Latest(queuedLog[s], 0, snapped[s], f))]_vars

\* a flush wrote a = 1; the flush of a later queue() of a = 2 failed once,
\* was retried, and its write has left a = 2
C22_Witness ==
  /\ flushPc[Q] = "written"
  /\ metaStamp = 2
  /\ writeFailures[Q] = 1
  /\ queuedLog[Q] = << [a |-> 1], [a |-> 2] >>
  /\ snapped[Q] = 2
  /\ RemoteHolds(storage, "a", 2)

\* what the PersistQueue of s holds and has done
QueueOf(s) ==
  << pendingData[s], timeoutId[s], isFlushing[s], flushPc[s], attempt[s],
     dataToWrite[s], newState[s], retryTimer[s], queuedLog[s],
     writeAttempts[s] >>

\* C23: a store that handles a change notification leaves its PersistQueue
\* as it was: nothing is queued, no timer is started, no flush begins and no
\* remote call is issued; and the remote key is written at most once per
\* set()/setAll() call, so the stores do not keep answering each other.
C23_NoFeedbackLoop ==
  [][/\ \A s \in Stores :
          (NotifyStep /\ handled'[s] /\ ~WriteStep(s)) => QueueOf(s)' = QueueOf(s)
     /\ metaStamp' <= Len(queuedLog'[1]) + Len(queuedLog'[2])]_vars

\* store 2 has handled the notification of the write of store 1 and taken
\* its value; it has queued and written nothing
C23_Witness ==
  /\ handled[2]
  /\ flushPc[1] = "written"
  /\ queuedLog[1] = << [a |-> 1] >>
  /\ metaStamp = 1
  /\ state[2]["a"] = 1
  /\ queuedLog[2] = << >>
  /\ pendingData[2] = Null
  /\ flushPc[2] = "idle"

\* C24 as stated: whenever no flush() of a queue is in progress, isBusy() is
\* false.
C24_AsStated ==
  \A s \in Stores : ~InFlight(s) => ~isFlushing[s]

\* C25 as stated: whenever isReady() is true, the change listener of the
\* store is registered.
C25_AsStated ==
  \A s \in Stores : isReady[s] => listener[s]

\* C26 as stated: when the read of init() resolves, every field given a
\* value by a set()/setAll() issued since init() was called still has the
\* value of the latest such call.
C26_AsStated ==
  [][\A s \in Stores :
       LoadStep(s) =>
         \A f \in Mentioned(queuedLog[s], loadBase[s], Len(queuedLog[s])) :
           state'[s][f] =
             Latest(queuedLog[s], loadBase[s], Len(queuedLog[s]), f)]_vars

\* a step in which a set()/setAll() of s runs up to its first await
SetStep(s) == queuedLog'[s] # queuedLog[s]

\* C27: in the step in which a set()/setAll() runs up to its first await,
\* every field of the call has its value in the state, every subscriber due
\* for the fields that changed is called with source local, the guard is
\* set and nothing is written to the remote store; and a flush begins its
\* remote read only with the guard set.
C27_LocalWriteOrder ==
  [][\A s \in Stores :
       /\ SetStep(s) =>
            LET partial == queuedLog'[s][Len(queuedLog'[s])]
            IN /\ \A f \in DOMAIN partial : state'[s][f] = partial[f]
               /\ s = M =>
                    /\ \A f \in Fields :
                         (\E i \in 1..Len(changed') : changed'[i] = f) <=>
                           (f \in DOMAIN partial /\ Differs(state[s], f, partial[f]))
                    /\ fired' = CallsDue(state'[s], changed', "local")
                    /\ returned'
               /\ isApplyingRemote'[s]
               /\ LOCAL_WRITE_DELAY \in guardTimers'[s]
               /\ storage' = storage /\ metaStamp' = metaStamp
       /\ (~InFlight(s) /\ InFlight(s)') => isApplyingRemote'[s]]_vars

\* a setAll() that changed both fields has called the subscriber of field a,
\* that of field b and the whole-state subscriber, has set the guard and
\* awaits the remote read of its flush; nothing was written yet
C27_Witness ==
  /\ queuedLog[M] = << [a |-> 1, b |-> 1] >>
  /\ flushPc[M] = "get"
  /\ isApplyingRemote[M]
  /\ ~storage.has
  /\ changed = << "a", "b" >>
  /\ Len(fired) = 3
  /\ fired[1].channel = "a" /\ fired[1].value = 1 /\ fired[1].source = "local"
  /\ fired[2].channel = "b" /\ fired[2].value = 1
  /\ fired[3].channel = "*" /\ fired[3].snapshot = [a |-> 1, b |-> 1]

\* ---------------------------------------------------------------------- C28
\* C28: a change notification whose area is not the sync area, whose
\* changed-key map lacks the state key, or whose state-key change carries no
\* new value leaves the in-memory state of a store unchanged and calls none
\* of its subscribers.
C28_NotificationFilter ==
  [][\A n \in Notifications :
       (Receive(n) /\ (n.area # "sync" \/ ~n.hasKey \/ ~n.hasNew))
         => /\ state' = state
            /\ UNCHANGED << changed, fired, returned >>
            /\ UNCHANGED << isApplyingRemote, guardTimers >>
            /\ ~handled'[M]]_vars

\* the listening store with subscribers has replaced its state by a remote
\* { a: 2 }, its guard has run out, and the removal of the state key after
\* that has left the state and the calls made as they were
C28_Witness ==
  /\ nExternal = 2
  /\ listener[M]
  /\ storage = Absent
  /\ state[M] = [a |-> 2, b |-> 0]
  /\ ~handled[M]
  /\ ~isApplyingRemote[M]
  /\ Len(keySubscribers["a"]) > 0
  /\ Len(allSubscribers) > 0
  /\ Len(fired) = 2
  /\ \A i \in 1..Len(fired) : fired[i].source = "remote"

\* ---------------------------------------------------------------------- C29
\* C29: after any sequence of start() and stop() calls the engine has at most
\* one listener registered on the change stream, exactly one after a start()
\* and none after a stop(), and no notification that arrives while the
\* engine is stopped changes the in-memory state.
C29_StartStop ==
  /\ [](\A s \in Stores :
         onChanged[s] = (IF listener[s] THEN 1 ELSE 0))
  /\ [][/\ Start(M) => onChanged'[M] = 1
        /\ Stop(M) => onChanged'[M] = 0
        /\ \A n \in Notifications :
             (Receive(n) /\ ~listener[M]) => state' = state]_vars

\* the engine has been started, has replaced the state by a remote { a: 2 },
\* and has been stopped; the write of { a: 1, b: 2 } has changed the remote
\* store and not the state
C29_Witness ==
  /\ ~listener[M]
  /\ onChanged[M] = 0
  /\ nExternal = 2
  /\ storage = Stored([a |-> 1, b |-> 2])
  /\ state[M] = [a |-> 2, b |-> 0]
  /\ ~handled[M]

\* ---------------------------------------------------------------------- C30
\* C30: with a resolver, each field of the local or the remote snapshot
\* resolves to the remote value if it is absent locally, to the local value
\* if it is absent remotely or the two values are the same, and otherwise to
\* what the resolver returns; the resolver is invoked once for each
\* conflicting field, with the key and the two values of that field, and for
\* no other field.
C30_PerFieldResolution ==
  [][\A n \in Notifications :
       (Receive(n) /\ Reacts(M, n) /\ onConflict[M] # "none") =>
         LET local == state[M]
             remote == n.value
             calls == ResolverCalls(local, remote, onConflict[M])
             For(k) == {i \in 1..Len(calls) : calls[i].key = k}
         IN /\ DOMAIN state'[M] = (DOMAIN local) \cup (DOMAIN remote)
            /\ \A k \in (DOMAIN local) \cup (DOMAIN remote) :
                 IF k \notin DOMAIN local
                 THEN state'[M][k] = remote[k] /\ For(k) = {}
                 ELSE IF k \notin DOMAIN remote \/ local[k] = remote[k]
                 THEN state'[M][k] = local[k] /\ For(k) = {}
                 ELSE /\ Cardinality(For(k)) = 1
                      /\ \A i \in For(k) :
                           /\ calls[i].local = local[k]
                           /\ calls[i].remote = remote[k]
                           /\ state'[M][k] = calls[i].result
            /\ \A i \in 1..Len(calls) :
                 calls[i].key \in (DOMAIN local) \cup (DOMAIN remote)]_vars

\* an engine whose resolver returns context.local has resolved a remote
\* { a: 1, b: 2 } against a state with b = 1: a is the same or comes from the
\* remote side, b is what the resolver returned
C30_Witness ==
  /\ onConflict[M] = "local"
  /\ handled[M]
  /\ nExternal = 1
  /\ storage = Stored([a |-> 1, b |-> 2])
  /\ state[M] = [a |-> 1, b |-> 1]

\* ---------------------------------------------------------------------- C31
\* a step of queue() on s
QueueStep(s) == Len(queuedLog'[s]) = Len(queuedLog[s]) + 1

\* a step in which the flush() of s calls storage.set
WriteBegins(s) == flushPc[s] # "set" /\ flushPc'[s] = "set"

\* less than a debounce interval has passed since the last queue() on s
Debouncing(s) == timeoutId[s] # NoTimer /\ timeoutId[s] > 0

\* C31 as stated: at most one debounce timer is pending, and without an
\* explicit flush() no remote write begins before a full debounce interval
\* has passed since the most recent queue() call.
C31_AsStated ==
  /\ [](scheduled[Q] <= 1)
  /\ [][WriteBegins(Q) => ~Debouncing(Q)]_vars

\* C31: at most one debounce timer is pending; queue() restarts it at the
\* full interval and hasPending() is true while it runs; without an explicit
\* flush() a flush takes its snapshot only when the interval has run out, and
\* a remote write that begins before that belongs to a flush that was in
\* flight and does not carry the most recent queue() call.
C31_Debounce ==
  /\ [](/\ scheduled[Q] <= 1
        /\ scheduled[Q] = 1 <=> timeoutId[Q] # NoTimer
        /\ timeoutId[Q] # NoTimer => pendingData[Q] # Null)
  /\ [][/\ QueueStep(Q) => timeoutId'[Q] = debounce
        /\ SnapshotStep(Q) => timeoutId[Q] = 0
        /\ (WriteBegins(Q) /\ Debouncing(Q)) =>
             /\ snapped[Q] < Len(queuedLog[Q])
             /\ pendingData[Q] # Null]_vars

\* the write of the first queue() call has begun while the timer of the
\* second, made during the read of the flush, has its full interval left
C31_Witness ==
  /\ flushPc[Q] = "set"
  /\ snapped[Q] = 1
  /\ Len(queuedLog[Q]) = 2
  /\ timeoutId[Q] = debounce
  /\ scheduled[Q] = 1
  /\ pendingData[Q] = queuedLog[Q][2]

\* ---------------------------------------------------------------------- C32
\* the fields of obj whose value is not the one the state has
Changing(obj) ==
  {k \in DOMAIN obj : k \notin DOMAIN state[M] \/ state[M][k] # obj[k]}

\* the calls among calls made to cb on channel
CallsTo(calls, channel, cb) ==
  {i \in 1..Len(calls) : calls[i].cb = cb /\ calls[i].channel = channel}

\* calls are those of one batch that gives the fields of obj their values,
\* and keys is the list of the fields that change
Batch(calls, obj, keys, source) ==
  LET changing == Changing(obj)
      all == {i \in 1..Len(calls) : calls[i].channel = "*"}
  IN /\ Members(keys) = changing
     /\ Len(keys) = Cardinality(changing)
     /\ \A k \in Fields, cb \in Callbacks :
          /\ Cardinality(CallsTo(calls, k, cb)) =
               (IF k \in changing /\ cb \in Members(keySubscribers[k])
                THEN 1 ELSE 0)
          /\ \A i \in CallsTo(calls, k, cb) :
               calls[i].value = obj[k] /\ calls[i].source = source
     /\ \A cb \in Callbacks :
          Cardinality({i \in all : calls[i].cb = cb}) =
            (IF changing # {} /\ cb \in Members(allSubscribers)
             THEN 1 ELSE 0)
     /\ \A i \in all :
          /\ calls[i].keys = keys
          /\ calls[i].source = source
          /\ \A j \in (1..Len(calls)) \ all : j < i

\* C32: updateMultiple(partial) and replaceState(newState) call the per-field
\* subscribers of exactly the fields whose value changes, then each
\* whole-state subscriber once with the list of those fields, and nobody
\* when no field changes; the list replaceState returns is that list and
\* holds fields of newState only.
C32_BatchNotification ==
  /\ \A partial \in Partials, source \in Sources :
       Batch(Made(UpdateMultipleCalls(partial, source)), partial,
             ChangedKeys(state[M], partial), source)
  /\ \A replacement \in Replacements, source \in Sources :
       /\ Batch(Made(ReplaceCalls(replacement, source)), replacement,
                ChangedKeys(state[M], replacement), source)
       /\ Members(ChangedKeys(state[M], replacement)) \subseteq DOMAIN replacement

\* a batch has changed both fields: the subscribers of a, those of b and
\* then the whole-state subscriber have been called, the last with [a, b]
C32_Witness ==
  /\ changed = << "a", "b" >>
  /\ Len(fired) = 3
  /\ fired[1].channel = "a"
  /\ fired[2].channel = "b"
  /\ fired[3].channel = "*"
  /\ fired[3].keys = << "a", "b" >>

\* ---------------------------------------------------------------------- C33
\* C33: update(field, value, source) with a value the field does not have
\* replaces the field, then calls every per-field subscriber of that field
\* in subscription order with (value, source), then every whole-state
\* subscriber in subscription order with (the state that has the new value,
\* [field], source); it calls no subscriber of another field.
C33_UpdateOrder ==
  \A key \in Fields, value \in Values, source \in Sources :
    (key \notin DOMAIN state[M] \/ state[M][key] # value) =>
      LET calls == Made(UpdateCalls(key, value, source))
          new == Update(state[M], key, value)
          nk == Len(keySubscribers[key])
      IN /\ new[key] = value
         /\ \A f \in (DOMAIN state[M]) \ {key} : new[f] = state[M][f]
         /\ UpdateKeys(key, value) = << key >>
         /\ Len(calls) = nk + Len(allSubscribers)
         /\ \A i \in 1..nk :
              /\ calls[i].cb = keySubscribers[key][i]
              /\ calls[i].channel = key
              /\ calls[i].value = value
              /\ calls[i].source = source
         /\ \A i \in 1..Len(allSubscribers) :
              /\ calls[nk + i].cb = allSubscribers[i]
              /\ calls[nk + i].channel = "*"
              /\ calls[nk + i].snapshot = new
              /\ calls[nk + i].keys = << key >>
              /\ calls[nk + i].source = source

\* callback 2 subscribed to a before callback 1 did; the change of a has
\* called 2, then 1, then the whole-state subscriber with the new state
C33_Witness ==
  /\ keySubscribers["a"] = << 2, 1 >>
  /\ Len(allSubscribers) = 1
  /\ changed = << "a" >>
  /\ Len(fired) = 3
  /\ fired[1].cb = 2 /\ fired[1].channel = "a"
  /\ fired[2].cb = 1 /\ fired[2].channel = "a"
  /\ fired[1].value = state[M]["a"]
  /\ fired[3].channel = "*"
  /\ fired[3].snapshot = state[M]
  /\ fired[3].keys = << "a" >>

\* ---------------------------------------------------------------------- C34
\* round(used / 102400 * 1000): the integer nearest to it, the upper one of
\* two equally near
Rounded(used) ==
  LET below == (1000 * used) \div CHROME_SYNC_QUOTA
      rest == 1000 * used - below * CHROME_SYNC_QUOTA
  IN IF 2 * rest >= CHROME_SYNC_QUOTA THEN below + 1 ELSE below

\* the calls of onQuotaWarning that percent >= 80 asks for
Expected(used) == IF Rounded(used) >= 80 * 10 THEN 1 ELSE 0

\* the checkQuota() calls of s that have returned
Checked(s) ==
  resolved[s] + rejected[s]
    + (IF initPc[s] = "done" /\ listener[s] THEN 1 ELSE 0)

\* C34: with onQuotaWarning supplied, a successful init() and every
\* set()/setAll() read the usage; when the read succeeds the callback is
\* called once if percent >= 80, with percent = round(used / 102400 * 1000)
\* / 10, and not at all otherwise or when the read fails.
C34_QuotaWarning ==
  /\ [](Len(warned[S1]) <= Checked(S1))
  /\ [][/\ \A used \in UsedBytes, throws \in BOOLEAN :
             (QuotaRead(S1, used, throws) \/ InitQuotaRead(S1, used, throws))
               => Len(warned'[S1]) = Len(warned[S1]) + Expected(used)
        /\ (QuotaReadFail(S1) \/ InitQuotaReadFail(S1))
             => warned'[S1] = warned[S1]
        /\ (initPc[S1] = "loading" /\ initPc'[S1] # "loading" /\ listener'[S1])
             => initPc'[S1] = "quota"
        /\ Len(queuedLog'[S1]) > Len(queuedLog[S1])
             => (awaited'[S1] \/ quotaReads'[S1] = quotaReads[S1] + 1)]_vars

\* init() and one set() have both read a usage that rounds to 80.0 percent
\* or more, and the callback has been called once for each
C34_Witness ==
  /\ initPc[S1] = "done"
  /\ listener[S1]
  /\ Len(queuedLog[S1]) = 1
  /\ resolved[S1] = 1
  /\ quotaReads[S1] = 0
  /\ nFaults = 0
  /\ Len(warned[S1]) = 2

====
